---- MODULE Spec2Model ----
(***************************************************************************)
(* A model of the GitLab REST client of src/src/index.js: the constructor, *)
(* the request executor _request and the paginator _paginatedRequest, as   *)
(* they run against a transport (node-fetch, or the tests' mock of it).    *)
(***************************************************************************)
EXTENDS Integers, Sequences, FiniteSets, TLC

(***************************************************************************)
(* The client's mutable state.                                             *)
(***************************************************************************)
VARIABLES
  rateLimitRemaining,  \* this.rateLimitRemaining
  rateLimitReset       \* this.rateLimitReset

(***************************************************************************)
(* JavaScript values.  Every value is a tagged record; values of different *)
(* tags have different fields, so they are never equal.                    *)
(***************************************************************************)
Null == [t |-> "null"]
\* the value of a field that no assignment has reached
Undefined == [t |-> "undefined"]
NaN == [t |-> "nan"]
Str(s) == [t |-> "str", s |-> s]
Num(n) == [t |-> "int", n |-> n]
Bool(b) == [t |-> "bool", b |-> b]
\* an object literal: its own enumerable properties in insertion order
Obj(pairs) == [t |-> "obj", f |-> pairs]
Arr(items) == [t |-> "arr", a |-> items]

\* ToBoolean, as `if (data)`, `a || b` and `a && b` apply it
Truthy(v) ==
  CASE v.t = "null" -> FALSE
    [] v.t = "undefined" -> FALSE
    [] v.t = "nan" -> FALSE
    [] v.t = "str" -> v.s # ""
    [] v.t = "int" -> v.n # 0
    [] v.t = "bool" -> v.b
    [] OTHER -> TRUE

IsArray(v) == v.t = "arr"

\* a || b
OrElse(a, b) == IF Truthy(a) THEN a ELSE b

\* a plain object as a map from property names to values
EmptyObject == <<>>

Has(o, k) == k \in DOMAIN o

\* o.k, and o?.k of a missing property: undefined, which is null here
Prop(o, k) == IF Has(o, k) THEN o[k] ELSE Null

\* { ...a, ...b }: b's properties replace a's of the same name
Spread(a, b) == [k \in DOMAIN a \cup DOMAIN b |-> IF k \in DOMAIN b THEN b[k] ELSE a[k]]

RECURSIVE JoinWith(_, _)
JoinWith(parts, sep) ==
  IF parts = <<>> THEN ""
  ELSE IF Len(parts) = 1 THEN parts[1]
  ELSE parts[1] \o sep \o JoinWith(Tail(parts), sep)

\* JSON.stringify of a value
RECURSIVE Stringify(_)
Stringify(v) ==
  CASE v.t = "null" -> "null"
    [] v.t = "nan" -> "null"
    [] v.t = "str" -> "\"" \o v.s \o "\""
    [] v.t = "int" -> ToString(v.n)
    [] v.t = "bool" -> (IF v.b THEN "true" ELSE "false")
    [] v.t = "obj" ->
         "{" \o JoinWith([i \in 1..Len(v.f) |->
                            "\"" \o v.f[i][1] \o "\":" \o Stringify(v.f[i][2])], ",")
             \o "}"
    [] v.t = "arr" ->
         "[" \o JoinWith([i \in 1..Len(v.a) |-> Stringify(v.a[i])], ",") \o "]"

\* String.prototype.startsWith
StartsWith(s, prefix) ==
  Len(s) >= Len(prefix) /\ SubSeq(s, 1, Len(prefix)) = prefix

\* String.prototype.includes, for a one-character needle
Includes(s, c) == \E i \in 1..Len(s) : SubSeq(s, i, i) = c


\* the value of one decimal digit character, -1 for any other character
DigitValue(c) ==
  CASE c = "0" -> 0 [] c = "1" -> 1 [] c = "2" -> 2 [] c = "3" -> 3 [] c = "4" -> 4
    [] c = "5" -> 5 [] c = "6" -> 6 [] c = "7" -> 7 [] c = "8" -> 8 [] c = "9" -> 9
    [] OTHER -> -1

RECURSIVE DigitPrefix(_, _, _)
\* the number read from the digits of s from position i on, acc read so far
DigitPrefix(s, i, acc) ==
  IF i > Len(s) \/ DigitValue(SubSeq(s, i, i)) < 0 THEN acc
  ELSE DigitPrefix(s, i + 1, acc * 10 + DigitValue(SubSeq(s, i, i)))

\* parseInt(s, 10): an optional sign, then the longest run of digits; NaN without a digit
ParseInt(s) ==
  LET neg == Len(s) >= 1 /\ SubSeq(s, 1, 1) = "-"
      start == IF Len(s) >= 1 /\ SubSeq(s, 1, 1) \in {"-", "+"} THEN 2 ELSE 1
  IN IF start > Len(s) \/ DigitValue(SubSeq(s, start, start)) < 0 THEN NaN
     ELSE Num((IF neg THEN -1 ELSE 1) * DigitPrefix(s, start, 0))

(***************************************************************************)
(* The constructor.                                                        *)
(***************************************************************************)
DefaultApiVersion == "v4"

\* this.host: the host itself when it starts with "http", else with https:// in front
NormalizeHost(host) == IF StartsWith(host, "http") THEN host ELSE "https://" \o host

\* a variant that looks at the token before the host
ConstructTokenFirst(options) ==
  IF ~Truthy(Prop(options, "token")) THEN [ok |-> FALSE, error |-> "GitLab token is required."]
  ELSE IF ~Truthy(Prop(options, "host")) THEN [ok |-> FALSE, error |-> "GitLab host is required."]
  ELSE LET host == NormalizeHost(options["host"].s)
           apiVersion == OrElse(Prop(options, "apiVersion"), Str(DefaultApiVersion)).s
       IN [ok |-> TRUE, host |-> host, token |-> options["token"].s,
           apiVersion |-> apiVersion,
           baseUrl |-> host \o "/api/" \o apiVersion]

\* new GitLabAPI(options): the constructed client's configuration, or the error thrown
Construct(options) ==
  IF ~Truthy(Prop(options, "host")) THEN [ok |-> FALSE, error |-> "GitLab host is required."]
  ELSE IF ~Truthy(Prop(options, "token")) THEN [ok |-> FALSE, error |-> "GitLab token is required."]
  ELSE LET host == NormalizeHost(options["host"].s)
           apiVersion == OrElse(Prop(options, "apiVersion"), Str(DefaultApiVersion)).s
       IN [ok |-> TRUE, host |-> host, token |-> options["token"].s,
           apiVersion |-> apiVersion,
           baseUrl |-> host \o "/api/" \o apiVersion]

(***************************************************************************)
(* The transport: a response is its status, its header map, its body and   *)
(* whether its body stream can be read once only (node-fetch) or again     *)
(* (the tests' mock responses).                                            *)
(***************************************************************************)
\* response.ok
Ok(resp) == resp.status >= 200 /\ resp.status < 300

\* headers.get(name): null for a header the map does not hold
HeaderGet(h, name) == IF name \in DOMAIN h THEN Str(h[name]) ELSE Null

JsonBody(v) == [kind |-> "json", value |-> v]
TextBody(s) == [kind |-> "text", text |-> s]
\* a body whose stream fails, or a response object without body methods
BrokenBody == [kind |-> "broken"]

\* await response.json(): the parsed value when the body is JSON text
JsonRead(resp) ==
  IF resp.body.kind = "json" THEN [ok |-> TRUE, value |-> resp.body.value]
  ELSE [ok |-> FALSE]

\* await response.text(); used: an earlier read on this response consumed the stream
TextRead(resp, used) ==
  IF used /\ resp.singleUse THEN [ok |-> FALSE]
  ELSE CASE resp.body.kind = "json" -> [ok |-> TRUE, text |-> Stringify(resp.body.value)]
         [] resp.body.kind = "text" -> [ok |-> TRUE, text |-> resp.body.text]
         [] OTHER -> [ok |-> FALSE]

BodyReadError == [name |-> "FetchError", message |-> "body unreadable"]
TransportError == [name |-> "FetchError", message |-> "request failed"]

\* the failures fetch rejects with when no response arrives
TransportErrors ==
  {TransportError,
   [name |-> "FetchError", message |-> "getaddrinfo ENOTFOUND gitlab.example.com"],
   [name |-> "AbortError", message |-> "The user aborted a request."]}


(***************************************************************************)
(* _request.                                                               *)
(***************************************************************************)
\* const url = `${this.baseUrl}/${endpoint}`
RequestUrl(cfg, endpoint) == cfg.baseUrl \o "/" \o endpoint

DefaultHeaders(cfg) ==
  ("PRIVATE-TOKEN" :> cfg.token) @@ ("Content-Type" :> "application/json")

\* ...options.headers: nothing when options has no headers
OptionHeaders(options) == IF Has(options, "headers") THEN options["headers"] ELSE EmptyObject

\* the headers property of the fetchOptions literal, before ...options is applied
MergedHeaders(cfg, options) == Spread(DefaultHeaders(cfg), OptionHeaders(options))

\* a variant that takes nothing but the headers from options
FetchOptionsLiteralWithoutOptions(cfg, method, options) ==
  ("method" :> method) @@ ("headers" :> MergedHeaders(cfg, options))

\* { method, headers: {...}, ...options }
FetchOptionsLiteral(cfg, method, options) ==
  Spread(("method" :> method) @@ ("headers" :> MergedHeaders(cfg, options)), options)

\* a variant that tests data against null instead of for truthiness
AttachBodyUnlessNull(fetchOptions, data) ==
  IF data # Null THEN Spread(fetchOptions, "body" :> Stringify(data)) ELSE fetchOptions

\* if (data) fetchOptions.body = JSON.stringify(data)
AttachBody(fetchOptions, data) ==
  IF Truthy(data) THEN Spread(fetchOptions, "body" :> Stringify(data)) ELSE fetchOptions

\* the options object handed to fetch
FetchOptions(cfg, method, data, options) ==
  AttachBody(FetchOptionsLiteral(cfg, method, options), data)

\* the call fetch(url, fetchOptions)
FetchCall(cfg, method, endpoint, data, options) ==
  [url |-> RequestUrl(cfg, endpoint), options |-> FetchOptions(cfg, method, data, options)]

ApiError(name, message, statusCode, responseBody, url) ==
  [name |-> name, message |-> message, statusCode |-> statusCode,
   responseBody |-> responseBody, url |-> url]

\* the error thrown for a non-2xx status whose body text was read
ErrorFor(status, errorText, url) ==
  IF status = 401
    THEN ApiError("GitLabAuthenticationError", "Authentication failed: " \o errorText,
                  status, errorText, url)
  ELSE IF status = 404
    THEN ApiError("GitLabNotFoundError", "Resource not found: " \o errorText,
                  status, errorText, url)
  ELSE IF status = 429
    THEN ApiError("GitLabRateLimitError", "Rate limit exceeded: " \o errorText,
                  status, errorText, url)
  ELSE ApiError("GitLabAPIError", "HTTP error " \o ToString(status) \o ": " \o errorText,
                status, errorText, url)

Resolved(value) == [kind |-> "resolved", value |-> value]
Rejected(error) == [kind |-> "rejected", error |-> error]

\* if (!response.ok) { const errorText = await response.text(); throw ... }
\* a failing text() throws out of the try block and is rethrown by the catch
FailureOutcome(url, resp) ==
  LET errorText == TextRead(resp, FALSE)
  IN IF errorText.ok THEN Rejected(ErrorFor(resp.status, errorText.text, url))
     ELSE Rejected(BodyReadError)

\* try { json() } catch { try { text() } catch { null } }
SuccessOutcome(resp) ==
  LET json == JsonRead(resp)
      text == TextRead(resp, TRUE)
  IN IF json.ok THEN Resolved([data |-> json.value, headers |-> resp.headers])
     ELSE IF text.ok THEN Resolved([data |-> Str(text.text), headers |-> resp.headers])
     ELSE Resolved([data |-> Null, headers |-> resp.headers])

\* what _request settles with once fetch has resolved with resp
ResponseOutcome(url, resp) ==
  IF ~Ok(resp) THEN FailureOutcome(url, resp) ELSE SuccessOutcome(resp)

\* the reads _request applies to the body of resp, in order: text() for a
\* non-2xx status, else json() and, when that throws, text()
BodyReads(resp) ==
  IF ~Ok(resp) THEN <<"text">>
  ELSE IF JsonRead(resp).ok THEN <<"json">>
  ELSE <<"json", "text">>

\* a variant that recasts the failure as a typed error without a status
RethrowAsApiError(error) ==
  [name |-> "GitLabAPIError", message |-> "HTTP error: " \o error.message]

\* catch (error) { console.error(...); throw error }
Rethrow(error) == error

\* a variant that keeps the value a response has set before
NewRateLimitRemainingFirstWins(resp) ==
  IF rateLimitRemaining # Null THEN rateLimitRemaining
  ELSE HeaderGet(resp.headers, "RateLimit-Remaining")

\* a variant that assigns only when the header is there
NewRateLimitRemainingIfPresent(resp) ==
  IF "RateLimit-Remaining" \in DOMAIN resp.headers
    THEN HeaderGet(resp.headers, "RateLimit-Remaining")
    ELSE rateLimitRemaining

\* this.rateLimitRemaining = response.headers.get("RateLimit-Remaining")
NewRateLimitRemaining(resp) == HeaderGet(resp.headers, "RateLimit-Remaining")

\* a variant that assigns only when the header is there
NewRateLimitResetIfPresent(resp) ==
  IF "RateLimit-Reset" \in DOMAIN resp.headers
    THEN HeaderGet(resp.headers, "RateLimit-Reset")
    ELSE rateLimitReset

\* this.rateLimitReset = response.headers.get("RateLimit-Reset")
NewRateLimitReset(resp) == HeaderGet(resp.headers, "RateLimit-Reset")


(***************************************************************************)
(* _paginatedRequest: the pure parts of one loop iteration.                *)
(***************************************************************************)
DefaultPerPage == 100

\* a variant that falls back to the default for null only, as ?? does
PerPageUnlessNull(options) ==
  IF Prop(options, "per_page") # Null THEN options["per_page"].n ELSE DefaultPerPage

\* const perPage = options.per_page || 100
PerPage(options) == OrElse(Prop(options, "per_page"), Num(DefaultPerPage)).n

\* new URLSearchParams(options.query): the object's entries, none for undefined
QueryOf(options) == IF Has(options, "query") THEN options["query"] ELSE <<>>

\* a variant that adds the pair whatever the entries are, as append does
ParamsAppend(params, name, value) == Append(params, <<name, value>>)

\* URLSearchParams.set: the first entry of that name gets the value and the
\* other entries of that name go; without one the pair is appended
ParamsSet(params, name, value) ==
  IF \E i \in 1..Len(params) : params[i][1] = name
    THEN LET first == CHOOSE i \in 1..Len(params) :
                        /\ params[i][1] = name
                        /\ \A j \in 1..(i - 1) : params[j][1] # name
             kept == SelectSeq([i \in 1..Len(params) |-> <<i, params[i]>>],
                               LAMBDA e : e[2][1] # name \/ e[1] = first)
         IN [i \in 1..Len(kept) |->
               IF kept[i][1] = first THEN <<name, value>> ELSE kept[i][2]]
    ELSE Append(params, <<name, value>>)

\* URLSearchParams.toString, for values that need no escaping
ParamsToString(params) ==
  JoinWith([i \in 1..Len(params) |-> params[i][1] \o "=" \o params[i][2]], "&")

\* the query of the request for page currentPage
PageQuery(options, currentPage) ==
  ParamsSet(ParamsSet(QueryOf(options), "page", ToString(currentPage)),
            "per_page", ToString(PerPage(options)))

\* a variant that joins with "?" whatever the endpoint holds
FullEndpointWithQuestionMark(endpoint, options, currentPage) ==
  endpoint \o "?" \o ParamsToString(PageQuery(options, currentPage))

\* endpoint + ("?" or "&") + query
FullEndpoint(endpoint, options, currentPage) ==
  LET query == ParamsToString(PageQuery(options, currentPage))
  IN endpoint \o (IF query # ""
                    THEN (IF Includes(endpoint, "?") THEN "&" ELSE "?") \o query
                    ELSE "")

\* a variant that asks for the first page each time
PageFetchCallOfFirst(cfg, c, currentPage) ==
  FetchCall(cfg, c.method, FullEndpoint(c.endpoint, c.options, 1), c.data, c.options)

\* the fetch call that this._request(method, fullEndpoint, data, options) makes
PageFetchCall(cfg, c, currentPage) ==
  FetchCall(cfg, c.method, FullEndpoint(c.endpoint, c.options, currentPage),
            c.data, c.options)

\* a variant that keeps only what the page itself states
NextTotalPagesOfPage(totalPages, headers) ==
  IF Truthy(HeaderGet(headers, "X-Total-Pages"))
    THEN ParseInt(HeaderGet(headers, "X-Total-Pages").s)
    ELSE Null

\* totalPages after a page's headers: parsed from X-Total-Pages when that is truthy
NextTotalPages(totalPages, headers) ==
  IF Truthy(HeaderGet(headers, "X-Total-Pages"))
    THEN ParseInt(HeaderGet(headers, "X-Total-Pages").s)
    ELSE totalPages

\* totalItems after a page's headers: parsed from X-Total when that is truthy
NextTotalItems(totalItems, headers) ==
  IF Truthy(HeaderGet(headers, "X-Total"))
    THEN ParseInt(HeaderGet(headers, "X-Total").s)
    ELSE totalItems

\* responseData.length < perPage
IsShortPage(responseData, perPage) == Len(responseData.a) < perPage

\* a variant that compares with > and so asks for one page more
ReachedTotalPagesLate(totalPages, currentPage) ==
  Truthy(totalPages) /\ currentPage > totalPages.n

\* totalPages && currentPage >= totalPages
ReachedTotalPages(totalPages, currentPage) ==
  Truthy(totalPages) /\ currentPage >= totalPages.n

\* a variant with a cap of two pages
LoopBreaksAtCap(responseData, perPage, totalPages, currentPage) ==
  \/ IsShortPage(responseData, perPage)
  \/ ReachedTotalPages(totalPages, currentPage)
  \/ currentPage >= 2

\* a variant that goes by the stated total alone once there is one
LoopBreaksByTotalFirst(responseData, perPage, totalPages, currentPage) ==
  IF Truthy(totalPages) THEN ReachedTotalPages(totalPages, currentPage)
  ELSE IsShortPage(responseData, perPage)

\* whether the loop breaks after the page just appended
LoopBreaks(responseData, perPage, totalPages, currentPage) ==
  IsShortPage(responseData, perPage) \/ ReachedTotalPages(totalPages, currentPage)

\* a variant that reports the page the loop began with
EnvelopeOfFirstPage(items, counter, pages, total, hdrs) ==
  [items |-> items, currentPage |-> 1, totalPages |-> pages,
   totalItems |-> total, headers |-> hdrs]

\* a variant that reports the loop counter itself
EnvelopeOfCounter(items, counter, pages, total, hdrs) ==
  [items |-> items, currentPage |-> counter, totalPages |-> pages,
   totalItems |-> total, headers |-> hdrs]

\* the object returned after the loop; currentPage is the loop counter, one
\* past the last page requested
Envelope(items, counter, pages, total, hdrs) ==
  [items |-> items, currentPage |-> counter - 1, totalPages |-> pages,
   totalItems |-> total, headers |-> hdrs]

IsEnvelope(value) == "items" \in DOMAIN value


\* a variant that returns nothing for such a payload
NonArrayReturnNull(responseData) == Null

\* a variant that wraps the payload like a one-element page
NonArrayReturnWrapped(responseData) ==
  Envelope(<<responseData>>, 2, Null, Null, EmptyObject)

\* return responseData, for a payload that is not an array
NonArrayReturn(responseData) == responseData

(***************************************************************************)
(* Bounds and inputs.                                                      *)
(***************************************************************************)
\* the longest run of pages one paginated call is followed for
MaxPages == 3
\* the longest page the server sends
MaxPageLen == 2
\* the most _request calls followed side by side
MaxConcurrent == 2

CtorOptions == ("host" :> Str("gitlab.example.com")) @@ ("token" :> Str("test_token"))

\* an option of the constructor: absent, or with one of the values
OptionChoices(name, values) == {EmptyObject} \cup {name :> v : v \in values}

\* the options arguments tried with the constructor
CtorOptionSets ==
  {Spread(Spread(h, t), v) :
     h \in OptionChoices("host", {Null, Str(""), Str("gitlab.example.com"),
                                   Str("https://gitlab.example.com"),
                                   Str("http://localhost:8080"), Str("httpbin.org"),
                                   Str("ftp://files.example.com")}),
     t \in OptionChoices("token", {Null, Str("test_token")}),
     v \in OptionChoices("apiVersion", {Null, Str("v3")})}

SomeObject == Obj(<< <<"name", Str("test project")>> >>)

\* the data arguments tried: omitted, objects, an array and the falsy scalars
DataValues == {Null, SomeObject, Obj(<<>>), Arr(<<>>), Num(0), Str(""), Bool(FALSE)}

\* the options arguments tried with _request
RequestOptions ==
  { EmptyObject,
    "headers" :> ("X-Custom" :> "1"),
    "headers" :> ("PRIVATE-TOKEN" :> "other_token"),
    "body" :> "raw body" }

RequestCalls ==
  {[method |-> "GET", endpoint |-> "projects/1", data |-> Null, options |-> o] :
     o \in RequestOptions}
  \cup {[method |-> "POST", endpoint |-> "projects", data |-> d, options |-> EmptyObject] :
          d \in DataValues}
  \cup {[method |-> "DELETE", endpoint |-> "projects/1/repository/files/a", data |-> SomeObject,
         options |-> "body" :> "raw body"]}

\* the options arguments tried with _paginatedRequest
PaginateOptions ==
  { EmptyObject,
    "per_page" :> Null,
    "per_page" :> Num(0),
    ("per_page" :> Num(1)) @@ ("state" :> Str("opened")),
    ("per_page" :> Num(2)) @@ ("query" :> <<>>) }

PaginateCalls ==
  {[method |-> "GET", endpoint |-> "projects", data |-> Null, options |-> o] :
     o \in PaginateOptions}
  \cup {[method |-> "GET", endpoint |-> "projects?search=x", data |-> Null,
         options |-> ("per_page" :> Num(2))
                       @@ ("query" :> << <<"custom_param", "value">>, <<"page", "9">>,
                                         <<"per_page", "50">> >>)
                       @@ ("headers" :> ("X-Custom" :> "1"))]}

\* header maps: each header absent or with one of the values
HeaderChoices(name, values) == {EmptyObject} \cup {name :> v : v \in values}

RateLimitMaps ==
  {Spread(a, b) : a \in HeaderChoices("RateLimit-Remaining", {"40", "39"}),
                  b \in HeaderChoices("RateLimit-Reset", {"1678886400"})}

\* the header maps of page responses: the total-pages header absent or one of
\* the values, with or without the item total and the rate-limit headers
PageHeaderMaps ==
  {Spread(a, b) : a \in HeaderChoices("X-Total-Pages", {"0", "1", "2", "abc"}),
                  b \in {EmptyObject,
                         ("X-Total" :> "3") @@ ("RateLimit-Remaining" :> "39")
                           @@ ("RateLimit-Reset" :> "1678886400")}}

\* the header maps of the other responses a paginated call gets
PagePlainHeaderMaps == {EmptyObject, "RateLimit-Remaining" :> "40"}

Statuses == {200, 204, 304, 400, 401, 404, 429, 500}

\* the statuses tried on the pages of a paginated call
PageStatuses == {200, 401, 404, 500}

\* bodies with the kind of stream they come on
Bodies ==
  {[body |-> JsonBody(Obj(<< <<"id", Num(1)>> >>)), singleUse |-> TRUE],
   [body |-> TextBody("some text"), singleUse |-> TRUE],
   [body |-> TextBody("some text"), singleUse |-> FALSE],
   [body |-> BrokenBody, singleUse |-> TRUE]}

\* responses of any status whose payload is no array
PlainResponses(statuses, headerMaps) ==
  {[status |-> st, headers |-> h, body |-> b.body, singleUse |-> b.singleUse] :
     st \in statuses, h \in headerMaps, b \in Bodies}

\* the responses to the calls that run side by side
ConcResponses ==
  {[status |-> st, headers |-> h, body |-> TextBody("some text"), singleUse |-> TRUE] :
     st \in {200, 404}, h \in RateLimitMaps}

\* the elements of page `page` when it holds n of them
PageItems(page, n) == [i \in 1..n |-> Obj(<< <<"id", Num(10 * page + i)>> >>)]

\* 2xx responses carrying page `page` of a collection
ArrayResponses(page) ==
  {[status |-> 200, headers |-> h, body |-> JsonBody(Arr(PageItems(page, n))),
    singleUse |-> TRUE] : h \in PageHeaderMaps, n \in 0..MaxPageLen}


(***************************************************************************)
(* The resource tables: every operation of projects ... search as the core *)
(* call it makes, for fixed ids, names and data.                           *)
(***************************************************************************)
\* encodeURIComponent of one character
EncodeChar(c) ==
  CASE c = "/" -> "%2F" [] c = " " -> "%20" [] c = "?" -> "%3F" [] c = "&" -> "%26"
    [] c = "=" -> "%3D" [] c = ":" -> "%3A" [] c = "#" -> "%23" [] c = "+" -> "%2B"
    [] c = "%" -> "%25"
    [] OTHER -> c

RECURSIVE EncodeURIComponent(_)
EncodeURIComponent(s) ==
  IF s = "" THEN ""
  ELSE EncodeChar(SubSeq(s, 1, 1)) \o EncodeURIComponent(SubSeq(s, 2, Len(s)))

\* the options arguments tried with the resource operations that take one
ResourceOptions == {EmptyObject, "query" :> << <<"simple", "true">> >>}

\* operation name, core method called and its arguments; `options` is the
\* caller's options argument, passed on by the operations that take one
ResourceCalls(options) ==
  {
    [name |-> "projects.all", core |-> "_paginatedRequest", method |-> "GET",
     endpoint |-> "projects",
     data |-> Null, options |-> options],
    [name |-> "projects.show", core |-> "_request", method |-> "GET",
     endpoint |-> "projects/" \o ToString(123),
     data |-> Null, options |-> EmptyObject],
    [name |-> "projects.create", core |-> "_request", method |-> "POST",
     endpoint |-> "projects",
     data |-> SomeObject, options |-> EmptyObject],
    [name |-> "projects.update", core |-> "_request", method |-> "PUT",
     endpoint |-> "projects/" \o ToString(123),
     data |-> SomeObject, options |-> EmptyObject],
    [name |-> "projects.remove", core |-> "_request", method |-> "DELETE",
     endpoint |-> "projects/" \o ToString(123),
     data |-> Null, options |-> EmptyObject],
    [name |-> "projects.fork", core |-> "_request", method |-> "POST",
     endpoint |-> "projects/" \o ToString(123) \o "/fork",
     data |-> SomeObject, options |-> EmptyObject],
    [name |-> "projects.search", core |-> "_paginatedRequest", method |-> "GET",
     endpoint |-> "projects?search=" \o "my project",
     data |-> Null, options |-> options],
    [name |-> "repositories.tree", core |-> "_paginatedRequest", method |-> "GET",
     endpoint |-> "projects/" \o ToString(123) \o "/repository/tree",
     data |-> Null, options |-> options],
    [name |-> "repositories.getFile", core |-> "_request", method |-> "GET",
     endpoint |-> "projects/" \o ToString(123) \o "/repository/files/" \o EncodeURIComponent("src/a.js") \o "/raw?ref=" \o "main",
     data |-> Null, options |-> EmptyObject],
    [name |-> "repositories.createFile", core |-> "_request", method |-> "POST",
     endpoint |-> "projects/" \o ToString(123) \o "/repository/files/" \o EncodeURIComponent("src/a.js"),
     data |-> SomeObject, options |-> EmptyObject],
    [name |-> "repositories.updateFile", core |-> "_request", method |-> "PUT",
     endpoint |-> "projects/" \o ToString(123) \o "/repository/files/" \o EncodeURIComponent("src/a.js"),
     data |-> SomeObject, options |-> EmptyObject],
    [name |-> "repositories.deleteFile", core |-> "_request", method |-> "DELETE",
     endpoint |-> "projects/" \o ToString(123) \o "/repository/files/" \o EncodeURIComponent("src/a.js"),
     data |-> SomeObject, options |-> EmptyObject],
    [name |-> "repositories.branches.all", core |-> "_paginatedRequest", method |-> "GET",
     endpoint |-> "projects/" \o ToString(123) \o "/repository/branches",
     data |-> Null, options |-> options],
    [name |-> "repositories.branches.show", core |-> "_request", method |-> "GET",
     endpoint |-> "projects/" \o ToString(123) \o "/repository/branches/" \o EncodeURIComponent("feature/x"),
     data |-> Null, options |-> EmptyObject],
    [name |-> "repositories.branches.create", core |-> "_request", method |-> "POST",
     endpoint |-> "projects/" \o ToString(123) \o "/repository/branches",
     data |-> SomeObject, options |-> EmptyObject],
    [name |-> "repositories.branches.delete", core |-> "_request", method |-> "DELETE",
     endpoint |-> "projects/" \o ToString(123) \o "/repository/branches/" \o EncodeURIComponent("feature/x"),
     data |-> Null, options |-> EmptyObject],
    [name |-> "mergeRequests.all", core |-> "_paginatedRequest", method |-> "GET",
     endpoint |-> "projects/" \o ToString(123) \o "/merge_requests",
     data |-> Null, options |-> options],
    [name |-> "mergeRequests.show", core |-> "_request", method |-> "GET",
     endpoint |-> "projects/" \o ToString(123) \o "/merge_requests/" \o ToString(7),
     data |-> Null, options |-> EmptyObject],
    [name |-> "mergeRequests.create", core |-> "_request", method |-> "POST",
     endpoint |-> "projects/" \o ToString(123) \o "/merge_requests",
     data |-> SomeObject, options |-> EmptyObject],
    [name |-> "mergeRequests.update", core |-> "_request", method |-> "PUT",
     endpoint |-> "projects/" \o ToString(123) \o "/merge_requests/" \o ToString(7),
     data |-> SomeObject, options |-> EmptyObject],
    [name |-> "mergeRequests.accept", core |-> "_request", method |-> "PUT",
     endpoint |-> "projects/" \o ToString(123) \o "/merge_requests/" \o ToString(7) \o "/merge",
     data |-> Null, options |-> options],
    [name |-> "mergeRequests.cancel", core |-> "_request", method |-> "PUT",
     endpoint |-> "projects/" \o ToString(123) \o "/merge_requests/" \o ToString(7) \o "/cancel",
     data |-> Null, options |-> EmptyObject],
    [name |-> "users.current", core |-> "_request", method |-> "GET",
     endpoint |-> "user",
     data |-> Null, options |-> EmptyObject],
    [name |-> "users.byId", core |-> "_request", method |-> "GET",
     endpoint |-> "users/" \o ToString(42),
     data |-> Null, options |-> EmptyObject],
    [name |-> "users.all", core |-> "_paginatedRequest", method |-> "GET",
     endpoint |-> "users",
     data |-> Null, options |-> options],
    [name |-> "groups.all", core |-> "_paginatedRequest", method |-> "GET",
     endpoint |-> "groups",
     data |-> Null, options |-> options],
    [name |-> "groups.show", core |-> "_request", method |-> "GET",
     endpoint |-> "groups/" \o ToString(9),
     data |-> Null, options |-> EmptyObject],
    [name |-> "groups.create", core |-> "_request", method |-> "POST",
     endpoint |-> "groups",
     data |-> SomeObject, options |-> EmptyObject],
    [name |-> "groups.update", core |-> "_request", method |-> "PUT",
     endpoint |-> "groups/" \o ToString(9),
     data |-> SomeObject, options |-> EmptyObject],
    [name |-> "groups.delete", core |-> "_request", method |-> "DELETE",
     endpoint |-> "groups/" \o ToString(9),
     data |-> Null, options |-> EmptyObject],
    [name |-> "groups.projects", core |-> "_paginatedRequest", method |-> "GET",
     endpoint |-> "groups/" \o ToString(9) \o "/projects",
     data |-> Null, options |-> options],
    [name |-> "issues.all", core |-> "_paginatedRequest", method |-> "GET",
     endpoint |-> "projects/" \o ToString(123) \o "/issues",
     data |-> Null, options |-> options],
    [name |-> "issues.show", core |-> "_request", method |-> "GET",
     endpoint |-> "projects/" \o ToString(123) \o "/issues/" \o ToString(5),
     data |-> Null, options |-> EmptyObject],
    [name |-> "issues.create", core |-> "_request", method |-> "POST",
     endpoint |-> "projects/" \o ToString(123) \o "/issues",
     data |-> SomeObject, options |-> EmptyObject],
    [name |-> "issues.update", core |-> "_request", method |-> "PUT",
     endpoint |-> "projects/" \o ToString(123) \o "/issues/" \o ToString(5),
     data |-> SomeObject, options |-> EmptyObject],
    [name |-> "issues.delete", core |-> "_request", method |-> "DELETE",
     endpoint |-> "projects/" \o ToString(123) \o "/issues/" \o ToString(5),
     data |-> Null, options |-> EmptyObject],
    [name |-> "issues.notes.all", core |-> "_paginatedRequest", method |-> "GET",
     endpoint |-> "projects/" \o ToString(123) \o "/issues/" \o ToString(5) \o "/notes",
     data |-> Null, options |-> options],
    [name |-> "issues.notes.create", core |-> "_request", method |-> "POST",
     endpoint |-> "projects/" \o ToString(123) \o "/issues/" \o ToString(5) \o "/notes",
     data |-> SomeObject, options |-> EmptyObject],
    [name |-> "issues.notes.update", core |-> "_request", method |-> "PUT",
     endpoint |-> "projects/" \o ToString(123) \o "/issues/" \o ToString(5) \o "/notes/" \o ToString(3),
     data |-> SomeObject, options |-> EmptyObject],
    [name |-> "issues.notes.delete", core |-> "_request", method |-> "DELETE",
     endpoint |-> "projects/" \o ToString(123) \o "/issues/" \o ToString(5) \o "/notes/" \o ToString(3),
     data |-> Null, options |-> EmptyObject],
    [name |-> "pipelines.all", core |-> "_paginatedRequest", method |-> "GET",
     endpoint |-> "projects/" \o ToString(123) \o "/pipelines",
     data |-> Null, options |-> options],
    [name |-> "pipelines.show", core |-> "_request", method |-> "GET",
     endpoint |-> "projects/" \o ToString(123) \o "/pipelines/" \o ToString(77),
     data |-> Null, options |-> EmptyObject],
    [name |-> "pipelines.create", core |-> "_request", method |-> "POST",
     endpoint |-> "projects/" \o ToString(123) \o "/pipelines",
     data |-> Obj(<< <<"ref", Str("main")>> >>), options |-> EmptyObject],
    [name |-> "pipelines.retry", core |-> "_request", method |-> "POST",
     endpoint |-> "projects/" \o ToString(123) \o "/pipelines/" \o ToString(77) \o "/retry",
     data |-> Null, options |-> EmptyObject],
    [name |-> "pipelines.cancel", core |-> "_request", method |-> "POST",
     endpoint |-> "projects/" \o ToString(123) \o "/pipelines/" \o ToString(77) \o "/cancel",
     data |-> Null, options |-> EmptyObject],
    [name |-> "pipelines.jobs", core |-> "_paginatedRequest", method |-> "GET",
     endpoint |-> "projects/" \o ToString(123) \o "/pipelines/" \o ToString(77) \o "/jobs",
     data |-> Null, options |-> options],
    [name |-> "jobs.show", core |-> "_request", method |-> "GET",
     endpoint |-> "projects/" \o ToString(123) \o "/jobs/" \o ToString(88),
     data |-> Null, options |-> EmptyObject],
    [name |-> "jobs.artifacts", core |-> "_request", method |-> "GET",
     endpoint |-> "projects/" \o ToString(123) \o "/jobs/" \o ToString(88) \o "/artifacts",
     data |-> Null, options |-> EmptyObject],
    [name |-> "jobs.trace", core |-> "_request", method |-> "GET",
     endpoint |-> "projects/" \o ToString(123) \o "/jobs/" \o ToString(88) \o "/trace",
     data |-> Null, options |-> EmptyObject],
    [name |-> "jobs.retry", core |-> "_request", method |-> "POST",
     endpoint |-> "projects/" \o ToString(123) \o "/jobs/" \o ToString(88) \o "/retry",
     data |-> Null, options |-> EmptyObject],
    [name |-> "jobs.cancel", core |-> "_request", method |-> "POST",
     endpoint |-> "projects/" \o ToString(123) \o "/jobs/" \o ToString(88) \o "/cancel",
     data |-> Null, options |-> EmptyObject],
    [name |-> "commits.show", core |-> "_request", method |-> "GET",
     endpoint |-> "projects/" \o ToString(123) \o "/repository/commits/" \o "a1b2c3d4",
     data |-> Null, options |-> EmptyObject],
    [name |-> "commits.commits", core |-> "_paginatedRequest", method |-> "GET",
     endpoint |-> "projects/" \o ToString(123) \o "/repository/commits",
     data |-> Null, options |-> options],
    [name |-> "commits.diff", core |-> "_request", method |-> "GET",
     endpoint |-> "projects/" \o ToString(123) \o "/repository/commits/" \o "a1b2c3d4" \o "/diff",
     data |-> Null, options |-> EmptyObject],
    [name |-> "commits.comments", core |-> "_request", method |-> "GET",
     endpoint |-> "projects/" \o ToString(123) \o "/repository/commits/" \o "a1b2c3d4" \o "/comments",
     data |-> Null, options |-> EmptyObject],
    [name |-> "projectsVariables.all", core |-> "_paginatedRequest", method |-> "GET",
     endpoint |-> "projects/" \o ToString(123) \o "/variables",
     data |-> Null, options |-> options],
    [name |-> "projectsVariables.show", core |-> "_request", method |-> "GET",
     endpoint |-> "projects/" \o ToString(123) \o "/variables/" \o "MY_VARIABLE",
     data |-> Null, options |-> EmptyObject],
    [name |-> "projectsVariables.create", core |-> "_request", method |-> "POST",
     endpoint |-> "projects/" \o ToString(123) \o "/variables",
     data |-> SomeObject, options |-> EmptyObject],
    [name |-> "projectsVariables.update", core |-> "_request", method |-> "PUT",
     endpoint |-> "projects/" \o ToString(123) \o "/variables/" \o "MY_VARIABLE",
     data |-> SomeObject, options |-> EmptyObject],
    [name |-> "projectsVariables.remove", core |-> "_request", method |-> "DELETE",
     endpoint |-> "projects/" \o ToString(123) \o "/variables/" \o "MY_VARIABLE",
     data |-> Null, options |-> EmptyObject],
    [name |-> "deployments.all", core |-> "_paginatedRequest", method |-> "GET",
     endpoint |-> "projects/" \o ToString(123) \o "/deployments",
     data |-> Null, options |-> options],
    [name |-> "deployments.show", core |-> "_request", method |-> "GET",
     endpoint |-> "projects/" \o ToString(123) \o "/deployments/" \o ToString(11),
     data |-> Null, options |-> EmptyObject],
    [name |-> "deployments.create", core |-> "_request", method |-> "POST",
     endpoint |-> "projects/" \o ToString(123) \o "/deployments",
     data |-> SomeObject, options |-> EmptyObject],
    [name |-> "deployments.update", core |-> "_request", method |-> "PUT",
     endpoint |-> "projects/" \o ToString(123) \o "/deployments/" \o ToString(11),
     data |-> SomeObject, options |-> EmptyObject],
    [name |-> "deployments.delete", core |-> "_request", method |-> "DELETE",
     endpoint |-> "projects/" \o ToString(123) \o "/deployments/" \o ToString(11),
     data |-> Null, options |-> EmptyObject],
    [name |-> "environments.all", core |-> "_paginatedRequest", method |-> "GET",
     endpoint |-> "projects/" \o ToString(123) \o "/environments",
     data |-> Null, options |-> options],
    [name |-> "environments.show", core |-> "_request", method |-> "GET",
     endpoint |-> "projects/" \o ToString(123) \o "/environments/" \o ToString(12),
     data |-> Null, options |-> EmptyObject],
    [name |-> "environments.create", core |-> "_request", method |-> "POST",
     endpoint |-> "projects/" \o ToString(123) \o "/environments",
     data |-> SomeObject, options |-> EmptyObject],
    [name |-> "environments.update", core |-> "_request", method |-> "PUT",
     endpoint |-> "projects/" \o ToString(123) \o "/environments/" \o ToString(12),
     data |-> SomeObject, options |-> EmptyObject],
    [name |-> "environments.delete", core |-> "_request", method |-> "DELETE",
     endpoint |-> "projects/" \o ToString(123) \o "/environments/" \o ToString(12),
     data |-> Null, options |-> EmptyObject],
    [name |-> "members.all", core |-> "_paginatedRequest", method |-> "GET",
     endpoint |-> "projects/" \o ToString(123) \o "/members",
     data |-> Null, options |-> options],
    [name |-> "members.show", core |-> "_request", method |-> "GET",
     endpoint |-> "projects/" \o ToString(123) \o "/members/" \o ToString(42),
     data |-> Null, options |-> EmptyObject],
    [name |-> "members.create", core |-> "_request", method |-> "POST",
     endpoint |-> "projects/" \o ToString(123) \o "/members",
     data |-> SomeObject, options |-> EmptyObject],
    [name |-> "members.update", core |-> "_request", method |-> "PUT",
     endpoint |-> "projects/" \o ToString(123) \o "/members/" \o ToString(42),
     data |-> SomeObject, options |-> EmptyObject],
    [name |-> "members.delete", core |-> "_request", method |-> "DELETE",
     endpoint |-> "projects/" \o ToString(123) \o "/members/" \o ToString(42),
     data |-> Null, options |-> EmptyObject],
    [name |-> "groupsMembers.all", core |-> "_paginatedRequest", method |-> "GET",
     endpoint |-> "groups/" \o ToString(9) \o "/members",
     data |-> Null, options |-> options],
    [name |-> "groupsMembers.show", core |-> "_request", method |-> "GET",
     endpoint |-> "groups/" \o ToString(9) \o "/members/" \o ToString(42),
     data |-> Null, options |-> EmptyObject],
    [name |-> "groupsMembers.create", core |-> "_request", method |-> "POST",
     endpoint |-> "groups/" \o ToString(9) \o "/members",
     data |-> SomeObject, options |-> EmptyObject],
    [name |-> "groupsMembers.update", core |-> "_request", method |-> "PUT",
     endpoint |-> "groups/" \o ToString(9) \o "/members/" \o ToString(42),
     data |-> SomeObject, options |-> EmptyObject],
    [name |-> "groupsMembers.delete", core |-> "_request", method |-> "DELETE",
     endpoint |-> "groups/" \o ToString(9) \o "/members/" \o ToString(42),
     data |-> Null, options |-> EmptyObject],
    [name |-> "search.projects", core |-> "_paginatedRequest", method |-> "GET",
     endpoint |-> "search?scope=projects&search=" \o EncodeURIComponent("my project"),
     data |-> Null, options |-> options],
    [name |-> "search.groups", core |-> "_paginatedRequest", method |-> "GET",
     endpoint |-> "search?scope=groups&search=" \o EncodeURIComponent("my project"),
     data |-> Null, options |-> options],
    [name |-> "search.users", core |-> "_paginatedRequest", method |-> "GET",
     endpoint |-> "search?scope=users&search=" \o EncodeURIComponent("my project"),
     data |-> Null, options |-> options]
  }

\* a variant that sends every GET through the paginator
CoreOfByMethod(c) == IF c.method = "GET" THEN "_paginatedRequest" ELSE "_request"

\* the core method an operation forwards to
CoreOf(c) == c.core

(***************************************************************************)
(* The state: one client, and the call in progress on it.                  *)
(***************************************************************************)
VARIABLES
  config,              \* host, token, apiVersion, baseUrl: fixed at construction
  constructed,         \* history: the options the constructor was called with
  procs,               \* the _request calls running side by side on the client, in
                       \* the order they were made: where each stands, its
                       \* response and how it settled
  pc,                  \* "idle", "request" (in _request, awaiting fetch),
                       \* "paginate" (in the loop, awaiting a page), "done"
  call,                \* the arguments of the call in progress
  allItems, currentPage, perPage, totalPages, totalItems, headers,
                       \* the locals of _paginatedRequest
  result,              \* how the call settled: <<>> while it has not
  fetchLog,            \* history: the fetch calls the call has made, in order
  pagesLog,            \* history: status and body of the responses the paginated
                       \* call has received, in order
  knownTotal,          \* history: the total page count the responses of the
                       \* paginated call have stated so far
  knownItems,          \* history: the item total the responses of the paginated
                       \* call have stated so far
  lastResponse,        \* history: the response the call has received last
  bodyReads,           \* history: the reads _request has applied to the body of
                       \* that response, in order
  thrown,              \* history: the failure fetch rejected with, <<>> if none
  prevReceived,        \* history: the rate-limit headers of the call's response
                       \* before the last
  received             \* history: the rate-limit headers of the client's last response

vars == <<config, constructed, procs, rateLimitRemaining, rateLimitReset, pc, call, allItems,
          currentPage, perPage, totalPages, totalItems, headers, result, fetchLog,
          pagesLog, knownTotal, knownItems, lastResponse, bodyReads, thrown,
          prevReceived, received>>

locals == <<allItems, currentPage, perPage, totalPages, totalItems, headers>>

NoCall == [op |-> "none"]

\* the rate-limit headers of a response, as the client is to mirror them
RateHeaders(resp) ==
  [remaining |-> IF "RateLimit-Remaining" \in DOMAIN resp.headers
                   THEN Str(resp.headers["RateLimit-Remaining"]) ELSE Null,
   reset |-> IF "RateLimit-Reset" \in DOMAIN resp.headers
               THEN Str(resp.headers["RateLimit-Reset"]) ELSE Null]

\* the total page count stated so far: the number in the response's
\* X-Total-Pages header when it carries a non-empty one, else the one before
StatedTotal(before, resp) ==
  IF "X-Total-Pages" \in DOMAIN resp.headers /\ resp.headers["X-Total-Pages"] # ""
    THEN ParseInt(resp.headers["X-Total-Pages"])
    ELSE before

\* the item total stated so far: the number in the response's X-Total header
\* when it carries a non-empty one, else the one before
StatedItems(before, resp) ==
  IF "X-Total" \in DOMAIN resp.headers /\ resp.headers["X-Total"] # ""
    THEN ParseInt(resp.headers["X-Total"])
    ELSE before

Init ==
  /\ config = Construct(CtorOptions)
  /\ constructed = CtorOptions
  /\ procs = <<>>
  /\ rateLimitRemaining = Null
  /\ rateLimitReset = Null
  /\ pc = "idle"
  /\ call = NoCall
  /\ allItems = <<>>
  /\ currentPage = 1
  /\ perPage = DefaultPerPage
  /\ totalPages = Null
  /\ totalItems = Null
  /\ headers = <<>>
  /\ result = <<>>
  /\ fetchLog = <<>>
  /\ pagesLog = <<>>
  /\ knownTotal = Null
  /\ knownItems = Null
  /\ lastResponse = <<>>
  /\ bodyReads = <<>>
  /\ thrown = <<>>
  /\ prevReceived = <<>>
  /\ received = <<>>

\* the two assignments every response causes, and the history of them
TakeResponse(resp) ==
  /\ rateLimitRemaining' = NewRateLimitRemaining(resp)
  /\ rateLimitReset' = NewRateLimitReset(resp)
  /\ lastResponse' = <<resp>>
  /\ bodyReads' = BodyReads(resp)
  /\ UNCHANGED thrown
  /\ prevReceived' = IF lastResponse = <<>> THEN <<>> ELSE <<RateHeaders(lastResponse[1])>>
  /\ received' = <<RateHeaders(resp)>>

\* a caller calls _request, which runs up to its await of fetch
Request ==
  \E c \in RequestCalls :
    /\ pc = "idle"
    /\ pc' = "request"
    /\ call' = [op |-> "request", method |-> c.method, endpoint |-> c.endpoint,
                data |-> c.data, options |-> c.options]
    /\ fetchLog' = <<FetchCall(config, c.method, c.endpoint, c.data, c.options)>>
    /\ UNCHANGED thrown
    /\ UNCHANGED <<config, constructed, procs, rateLimitRemaining, rateLimitReset, locals, result,
                   pagesLog, knownTotal, knownItems, lastResponse, bodyReads,
                   prevReceived, received>>

\* fetch resolves with a response and _request runs to its end
RequestResponds ==
  \E resp \in PlainResponses(Statuses, RateLimitMaps) :
    /\ pc = "request"
    /\ TakeResponse(resp)
    /\ result' = ResponseOutcome(fetchLog[Len(fetchLog)].url, resp)
    /\ pc' = "done"
    /\ UNCHANGED <<config, constructed, procs, call, locals, fetchLog, pagesLog, knownTotal, knownItems>>

\* a variant that forgets the rate limit when fetch rejects
RequestFailsClearing ==
  \E error \in TransportErrors :
    /\ pc = "request"
    /\ thrown' = <<error>>
    /\ result' = Rejected(Rethrow(error))
    /\ pc' = "done"
    /\ rateLimitRemaining' = Null
    /\ rateLimitReset' = Null
    /\ UNCHANGED <<config, constructed, procs, call, locals, fetchLog, pagesLog, knownTotal,
                   knownItems, lastResponse, bodyReads, prevReceived, received>>

\* fetch rejects: the catch block logs the error and rethrows it
RequestFails ==
  \E error \in TransportErrors :
    /\ pc = "request"
    /\ thrown' = <<error>>
    /\ result' = Rejected(Rethrow(error))
    /\ pc' = "done"
    /\ UNCHANGED <<config, constructed, procs, rateLimitRemaining, rateLimitReset, call, locals,
                   fetchLog, pagesLog, knownTotal, knownItems, lastResponse, bodyReads,
                   prevReceived, received>>

\* a caller calls _paginatedRequest, which runs up to the await of page 1
Paginate ==
  \E c \in PaginateCalls :
    /\ pc = "idle"
    /\ pc' = "paginate"
    /\ call' = [op |-> "paginate", method |-> c.method, endpoint |-> c.endpoint,
                data |-> c.data, options |-> c.options]
    /\ allItems' = <<>>
    /\ currentPage' = 1
    /\ perPage' = PerPage(c.options)
    /\ totalPages' = Null
    /\ totalItems' = Null
    /\ headers' = <<>>
    /\ fetchLog' = <<PageFetchCall(config, c, 1)>>
    /\ UNCHANGED thrown
    /\ UNCHANGED <<config, constructed, procs, rateLimitRemaining, rateLimitReset, result,
                   pagesLog, knownTotal, knownItems, lastResponse, bodyReads,
                   prevReceived, received>>

\* the request of the current page gets its response: _request settles and the
\* loop body runs to a return, a break or the await of the next page
PageResponds ==
  \E resp \in ArrayResponses(currentPage) \cup PlainResponses(PageStatuses, PagePlainHeaderMaps) :
    LET response == ResponseOutcome(fetchLog[Len(fetchLog)].url, resp)
        responseData == response.value.data
        items == allItems \o responseData.a
        pages == NextTotalPages(totalPages, response.value.headers)
        total == NextTotalItems(totalItems, response.value.headers)
    IN /\ pc = "paginate"
       /\ TakeResponse(resp)
       /\ pagesLog' = Append(pagesLog, [status |-> resp.status, body |-> resp.body])
       /\ knownTotal' = StatedTotal(knownTotal, resp)
       /\ knownItems' = StatedItems(knownItems, resp)
       /\ IF response.kind = "rejected"
            THEN /\ result' = Rejected(Rethrow(response.error))
                 /\ pc' = "done"
                 /\ UNCHANGED <<locals, fetchLog>>
          ELSE IF ~IsArray(responseData)
            THEN /\ headers' = <<response.value.headers>>
                 /\ result' = Resolved(NonArrayReturn(responseData))
                 /\ pc' = "done"
                 /\ UNCHANGED <<allItems, currentPage, perPage, totalPages, totalItems,
                                fetchLog>>
          ELSE /\ headers' = <<response.value.headers>>
               /\ allItems' = items
               /\ totalPages' = pages
               /\ totalItems' = total
               /\ currentPage' = currentPage + 1
               /\ UNCHANGED perPage
               /\ IF LoopBreaks(responseData, perPage, pages, currentPage)
                    THEN /\ result' = Resolved(Envelope(items, currentPage + 1, pages, total,
                                                        response.value.headers))
                         /\ pc' = "done"
                         /\ UNCHANGED fetchLog
                    ELSE /\ currentPage < MaxPages
                         /\ fetchLog' = Append(fetchLog,
                                               PageFetchCall(config, call, currentPage + 1))
                         /\ UNCHANGED <<pc, result>>
       /\ UNCHANGED <<config, constructed, procs, call>>

\* a variant that swallows the failure and goes on waiting for the page
PageFailsWaiting ==
  \E error \in TransportErrors :
    /\ pc = "paginate"
    /\ thrown' = <<error>>
    /\ UNCHANGED <<config, constructed, procs, rateLimitRemaining, rateLimitReset, pc, call, locals,
                   result, fetchLog, pagesLog, knownTotal, knownItems, lastResponse,
                   bodyReads, prevReceived, received>>

\* a variant that asks for the failed page again
PageFailsRetrying ==
  \E error \in TransportErrors :
    /\ pc = "paginate"
    /\ Len(fetchLog) <= MaxPages
    /\ thrown' = <<error>>
    /\ fetchLog' = Append(fetchLog, fetchLog[Len(fetchLog)])
    /\ UNCHANGED <<config, constructed, procs, rateLimitRemaining, rateLimitReset, pc, call, locals,
                   result, pagesLog, knownTotal, knownItems, lastResponse, bodyReads,
                   prevReceived, received>>

\* the fetch of the current page rejects: both catch blocks rethrow the error
PageFails ==
  \E error \in TransportErrors :
    /\ pc = "paginate"
    /\ thrown' = <<error>>
    /\ result' = Rejected(Rethrow(Rethrow(error)))
    /\ pc' = "done"
    /\ UNCHANGED <<config, constructed, procs, rateLimitRemaining, rateLimitReset, call, locals,
                   fetchLog, pagesLog, knownTotal, knownItems, lastResponse, bodyReads,
                   prevReceived, received>>

\* the caller has the settled result; the client is free for the next call
Return ==
  /\ pc = "done"
  /\ pc' = "idle"
  /\ call' = NoCall
  /\ allItems' = <<>>
  /\ currentPage' = 1
  /\ perPage' = DefaultPerPage
  /\ totalPages' = Null
  /\ totalItems' = Null
  /\ headers' = <<>>
  /\ result' = <<>>
  /\ fetchLog' = <<>>
  /\ pagesLog' = <<>>
  /\ knownTotal' = Null
  /\ knownItems' = Null
  /\ lastResponse' = <<>>
  /\ bodyReads' = <<>>
  /\ thrown' = <<>>
  /\ prevReceived' = <<>>
  /\ UNCHANGED <<config, constructed, procs, rateLimitRemaining, rateLimitReset, received>>

(***************************************************************************)
(* Construction: the state before `new GitLabAPI(options)` runs, and the   *)
(* constructor as a step.                                                  *)
(***************************************************************************)
\* no client object: the constructor has not run, or it threw
NoClient == [ok |-> FALSE]

CtorInit ==
  /\ config = NoClient
  /\ constructed \in CtorOptionSets
  /\ procs = <<>>
  /\ rateLimitRemaining = Undefined
  /\ rateLimitReset = Undefined
  /\ pc = "new"
  /\ call = NoCall
  /\ allItems = <<>>
  /\ currentPage = 1
  /\ perPage = DefaultPerPage
  /\ totalPages = Null
  /\ totalItems = Null
  /\ headers = <<>>
  /\ result = <<>>
  /\ fetchLog = <<>>
  /\ pagesLog = <<>>
  /\ knownTotal = Null
  /\ knownItems = Null
  /\ lastResponse = <<>>
  /\ bodyReads = <<>>
  /\ thrown = <<>>
  /\ prevReceived = <<>>
  /\ received = <<>>

\* new GitLabAPI(options): the throw of line 9 or 10, or the assignments of 12-19
New ==
  LET made == Construct(constructed)
  IN /\ pc = "new"
     /\ IF made.ok
          THEN /\ config' = made
               /\ rateLimitRemaining' = Null
               /\ rateLimitReset' = Null
               /\ pc' = "idle"
               /\ UNCHANGED result
          ELSE /\ result' = Rejected([name |-> "Error", message |-> made.error])
               /\ pc' = "thrown"
               /\ UNCHANGED <<config, rateLimitRemaining, rateLimitReset>>
     /\ UNCHANGED <<constructed, procs, call, locals, fetchLog, pagesLog, knownTotal, knownItems,
                    lastResponse, bodyReads, thrown, prevReceived, received>>

\* a client is constructed and then serves _request calls
CtorNext ==
  \/ New
  \/ Request
  \/ RequestResponds
  \/ RequestFails
  \/ Return

CtorSpec == CtorInit /\ [][CtorNext]_vars

\* a caller calls a resource operation, which makes its one core call and
\* returns that call's promise
ResourceCall ==
  \E o \in ResourceOptions :
    \E c \in ResourceCalls(o) :
      /\ pc = "idle"
      /\ IF CoreOf(c) = "_request"
           THEN /\ pc' = "request"
                /\ call' = [op |-> "request", method |-> c.method, endpoint |-> c.endpoint,
                            data |-> c.data, options |-> c.options, resource |-> c.name]
                /\ fetchLog' = <<FetchCall(config, c.method, c.endpoint, c.data, c.options)>>
                /\ UNCHANGED locals
           ELSE /\ pc' = "paginate"
                /\ call' = [op |-> "paginate", method |-> c.method, endpoint |-> c.endpoint,
                            data |-> c.data, options |-> c.options, resource |-> c.name]
                /\ allItems' = <<>>
                /\ currentPage' = 1
                /\ perPage' = PerPage(c.options)
                /\ totalPages' = Null
                /\ totalItems' = Null
                /\ headers' = <<>>
                /\ fetchLog' = <<PageFetchCall(config, c, 1)>>
      /\ UNCHANGED <<config, constructed, procs, rateLimitRemaining, rateLimitReset, result,
                     pagesLog, knownTotal, knownItems, lastResponse, bodyReads, thrown,
                     prevReceived, received>>

\* a client serves calls of its resource operations
ResourceNext ==
  \/ ResourceCall
  \/ RequestResponds
  \/ RequestFails
  \/ PageResponds
  \/ PageFails
  \/ Return

ResourceSpec == Init /\ [][ResourceNext]_vars

(***************************************************************************)
(* Calls side by side: several _request calls are made before the first    *)
(* has settled.  Each runs in turns, from one await to the next: up to the *)
(* await of fetch, from the response to the await of the body read, and    *)
(* from there to its return or throw.  Turns of different calls interleave *)
(* in any order; a turn itself is not interrupted.                         *)
(***************************************************************************)
\* the call _request("GET", "projects/1") each of them makes
ConcCall == [method |-> "GET", endpoint |-> "projects/1", data |-> Null, options |-> EmptyObject]

\* a caller calls _request while earlier calls are still running
ConcRequest ==
  /\ pc = "idle"
  /\ Len(procs) < MaxConcurrent
  /\ procs' = Append(procs, [pc |-> "fetch", resp |-> <<>>, result |-> <<>>])
  /\ fetchLog' = Append(fetchLog, FetchCall(config, ConcCall.method, ConcCall.endpoint,
                                            ConcCall.data, ConcCall.options))
  /\ UNCHANGED <<config, constructed, rateLimitRemaining, rateLimitReset, pc, call, locals,
                 result, pagesLog, knownTotal, knownItems, lastResponse, bodyReads, thrown,
                 prevReceived, received>>

\* fetch resolves for one of the calls: lines 39-40 run and the call goes on
\* to await the read of the body
ConcResponds ==
  \E i \in 1..Len(procs) :
    \E resp \in ConcResponses :
      /\ procs[i].pc = "fetch"
      /\ TakeResponse(resp)
      /\ procs' = [procs EXCEPT ![i] = [pc |-> "body", resp |-> <<resp>>, result |-> <<>>]]
      /\ UNCHANGED <<config, constructed, pc, call, locals, result, fetchLog, pagesLog,
                     knownTotal, knownItems>>

\* the body read of one of the calls ends: the call returns or throws
ConcSettles ==
  \E i \in 1..Len(procs) :
    /\ procs[i].pc = "body"
    /\ procs' = [procs EXCEPT ![i] =
                   [pc |-> "done", resp |-> procs[i].resp,
                    result |-> <<ResponseOutcome(fetchLog[i].url, procs[i].resp[1])>>]]
    /\ UNCHANGED <<config, constructed, rateLimitRemaining, rateLimitReset, pc, call, locals,
                   result, fetchLog, pagesLog, knownTotal, knownItems, lastResponse,
                   bodyReads, thrown, prevReceived, received>>

\* fetch rejects for one of the calls: its catch block rethrows
ConcFails ==
  \E i \in 1..Len(procs) :
    \E error \in TransportErrors :
      /\ procs[i].pc = "fetch"
      /\ thrown' = <<error>>
      /\ procs' = [procs EXCEPT ![i] =
                     [pc |-> "done", resp |-> <<>>, result |-> <<Rejected(Rethrow(error))>>]]
      /\ UNCHANGED <<config, constructed, rateLimitRemaining, rateLimitReset, pc, call,
                     locals, result, fetchLog, pagesLog, knownTotal, knownItems,
                     lastResponse, bodyReads, prevReceived, received>>

ConcNext ==
  \/ ConcRequest
  \/ ConcResponds
  \/ ConcSettles
  \/ ConcFails

ConcSpec == Init /\ [][ConcNext]_vars

Next ==
  \/ Request
  \/ RequestResponds
  \/ RequestFails
  \/ Paginate
  \/ PageResponds
  \/ PageFails
  \/ Return

Spec == Init /\ [][Next]_vars

\* every fetch call that is awaited settles: the transport answers it or fails
FairSpec ==
  /\ Spec
  /\ WF_vars(RequestResponds \/ RequestFails)
  /\ WF_vars(PageResponds \/ PageFails)


(***************************************************************************)
(* What the claims speak of, read off the histories.                       *)
(***************************************************************************)
Paginating == call.op = "paginate"
Requesting == call.op = "request"

\* a 2xx response whose body is a JSON array
IsSequencePage(page) ==
  Ok(page) /\ page.body.kind = "json" /\ page.body.value.t = "arr"

PageLength(page) == Len(page.body.value.a)

RECURSIVE ConcatPages(_)
\* the elements of the pages of a log, page after page
ConcatPages(log) ==
  IF log = <<>> THEN <<>> ELSE log[1].body.value.a \o ConcatPages(Tail(log))

\* the call has returned the envelope of k pages
ReturnedEnvelope(k) ==
  /\ pc = "done"
  /\ result.kind = "resolved"
  /\ IsEnvelope(result.value)
  /\ result.value.currentPage = k

\* pages 1..k-1 are full, page k is short, and they are all the log holds
FullThenShort ==
  /\ Len(pagesLog) >= 1
  /\ \A i \in 1..Len(pagesLog) : IsSequencePage(pagesLog[i])
  /\ \A i \in 1..(Len(pagesLog) - 1) : PageLength(pagesLog[i]) = PerPage(call.options)
  /\ PageLength(pagesLog[Len(pagesLog)]) < PerPage(call.options)

\* C1: when the pages received are k-1 pages of exactly per_page elements and
\* then a shorter one, the call has made exactly k requests and has returned
\* the envelope whose items are the pages' elements in order and whose
\* currentPage is k.
C1_FullPagesThenShortPage ==
  (Paginating /\ FullThenShort) =>
    /\ Len(fetchLog) = Len(pagesLog)
    /\ ReturnedEnvelope(Len(pagesLog))
    /\ result.value.items = ConcatPages(pagesLog)

C1_Witness ==
  /\ Paginating
  /\ FullThenShort
  /\ Len(pagesLog) = 3
  /\ PageLength(pagesLog[3]) = 1
  /\ ReturnedEnvelope(3)
  /\ result.value.totalPages # Null
  /\ Len(result.value.items) = 5

\* the page received last is full-size and the total page count N >= 1 that
\* the responses have stated is reached at it
FullPageAtTotal ==
  /\ Len(pagesLog) >= 1
  /\ IsSequencePage(pagesLog[Len(pagesLog)])
  /\ PageLength(pagesLog[Len(pagesLog)]) >= PerPage(call.options)
  /\ knownTotal.t = "int"
  /\ knownTotal.n >= 1
  /\ Len(pagesLog) >= knownTotal.n

\* C2: once a full-size page p has been received with a known total page
\* count N >= 1 and p >= N, no request for page p+1 is made and the envelope is
\* returned with currentPage = p.
C2_StopsAtTotalPages ==
  (Paginating /\ FullPageAtTotal) =>
    (Len(fetchLog) = Len(pagesLog) /\ ReturnedEnvelope(Len(pagesLog)))

C2_Witness ==
  /\ Paginating
  /\ FullPageAtTotal
  /\ Len(pagesLog) = 2
  /\ knownTotal = Num(2)
  /\ HeaderGet(lastResponse[1].headers, "X-Total-Pages") = Str("2")
  /\ Len(fetchLog) = 2
  /\ ReturnedEnvelope(2)

\* the first response is a 2xx whose payload is not an array
FirstPageNotSequence ==
  /\ Len(pagesLog) >= 1
  /\ Ok(pagesLog[1])
  /\ ~IsSequencePage(pagesLog[1])

\* C3: when the first page's payload is not a sequence, the call returns that
\* payload itself, with no envelope around it, after exactly one request.
C3_NonSequenceFirstPage ==
  (Paginating /\ FirstPageNotSequence) =>
    /\ pc = "done"
    /\ Len(fetchLog) = 1
    /\ Len(pagesLog) = 1
    /\ result.kind = "resolved"
    /\ ~IsEnvelope(result.value)
    /\ result.value = SuccessOutcome(lastResponse[1]).value.data

C3_Witness ==
  /\ Paginating
  /\ FirstPageNotSequence
  /\ pagesLog[1].body.kind = "json"
  /\ pc = "done"
  /\ result = Resolved(pagesLog[1].body.value)


\* the call has settled after a response of a non-2xx status
SettledOnFailure ==
  /\ pc = "done"
  /\ lastResponse # <<>>
  /\ ~Ok(lastResponse[1])

\* the error class the status selects
ErrorNameOf(status) ==
  CASE status = 401 -> "GitLabAuthenticationError"
    [] status = 404 -> "GitLabNotFoundError"
    [] status = 429 -> "GitLabRateLimitError"
    [] OTHER -> "GitLabAPIError"

\* the message the status selects for a body text
ErrorMessageOf(status, body) ==
  CASE status = 401 -> "Authentication failed: " \o body
    [] status = 404 -> "Resource not found: " \o body
    [] status = 429 -> "Rate limit exceeded: " \o body
    [] OTHER -> "HTTP error " \o ToString(status) \o ": " \o body

\* the text of a response's body, empty for one that cannot be read
BodyTextOrEmpty(resp) ==
  CASE resp.body.kind = "text" -> resp.body.text
    [] resp.body.kind = "json" -> Stringify(resp.body.value)
    [] OTHER -> ""

\* the rejection with the typed error of the last response, given its body text
RejectedWithTypedError(body) ==
  /\ result.kind = "rejected"
  /\ result.error.name = ErrorNameOf(lastResponse[1].status)
  /\ result.error.message = ErrorMessageOf(lastResponse[1].status, body)
  /\ result.error.statusCode = lastResponse[1].status
  /\ result.error.responseBody = body
  /\ result.error.url = fetchLog[Len(fetchLog)].url

\* C4: every non-2xx response makes _request reject with the one typed error
\* its status selects, carrying the status, the body text and the request URL.
C4_TypedErrorForEveryFailure ==
  SettledOnFailure => RejectedWithTypedError(BodyTextOrEmpty(lastResponse[1]))

\* C5: a non-2xx response whose body cannot be read as text still rejects with
\* the typed error of its status, with an empty responseBody.
C5_UnreadableBodyReadAsEmpty ==
  (SettledOnFailure /\ lastResponse[1].body.kind = "broken") =>
    RejectedWithTypedError("")

\* C6: the two rate-limit fields are null before any response and otherwise
\* equal the RateLimit-Remaining and RateLimit-Reset headers of the response
\* received last, null for an absent header.
C6_RateLimitMirrorsLastResponse ==
  IF received = <<>>
    THEN rateLimitRemaining = Null /\ rateLimitReset = Null
    ELSE /\ rateLimitRemaining = received[1].remaining
         /\ rateLimitReset = received[1].reset

C6_Witness ==
  /\ Paginating
  /\ pc = "done"
  /\ Len(pagesLog) = 2
  /\ prevReceived = <<[remaining |-> Str("39"), reset |-> Str("1678886400")]>>
  /\ ~Ok(lastResponse[1])
  /\ RateHeaders(lastResponse[1]) = [remaining |-> Str("40"), reset |-> Null]
  /\ rateLimitRemaining = Str("40")
  /\ rateLimitReset = Null

\* a step in which the client receives a response
Responds ==
  /\ lastResponse' # <<>>
  /\ \/ pc = "request"
     \/ pc = "paginate" /\ Len(pagesLog') = Len(pagesLog) + 1

\* C7 as stated: a field that holds a value is never set back to null.
C7_NeverResetToNull ==
  [][/\ rateLimitRemaining # Null => rateLimitRemaining' # Null
     /\ rateLimitReset # Null => rateLimitReset' # Null]_vars

\* C7 as amended: the fields are null at construction and change only when a
\* response is received; every response overwrites both, and a response
\* lacking a header sets that field to null whatever it held.
C7_OverwrittenByEveryResponse ==
  /\ rateLimitRemaining = Null
  /\ rateLimitReset = Null
  /\ [][IF Responds
          THEN /\ rateLimitRemaining' = RateHeaders(lastResponse'[1]).remaining
               /\ rateLimitReset' = RateHeaders(lastResponse'[1]).reset
          ELSE UNCHANGED <<rateLimitRemaining, rateLimitReset>>]_vars

C7_Witness ==
  /\ Paginating
  /\ Len(pagesLog) = 2
  /\ prevReceived = <<[remaining |-> Str("39"), reset |-> Str("1678886400")]>>
  /\ RateHeaders(lastResponse[1]) = [remaining |-> Null, reset |-> Null]
  /\ rateLimitRemaining = Null
  /\ rateLimitReset = Null

\* the headers the caller passed in options.headers
CallerHeaders == IF "headers" \in DOMAIN call.options THEN call.options["headers"] ELSE <<>>

\* C8: every fetch call carries PRIVATE-TOKEN and Content-Type, each with its
\* default value unless the caller passed a header of that name, and carries
\* the caller's headers.
C8_DefaultHeadersOnEveryRequest ==
  \A i \in 1..Len(fetchLog) :
    LET sent == fetchLog[i].options["headers"]
    IN /\ "PRIVATE-TOKEN" \in DOMAIN sent
       /\ "Content-Type" \in DOMAIN sent
       /\ sent["PRIVATE-TOKEN"] = IF "PRIVATE-TOKEN" \in DOMAIN CallerHeaders
                                    THEN CallerHeaders["PRIVATE-TOKEN"] ELSE config.token
       /\ sent["Content-Type"] = IF "Content-Type" \in DOMAIN CallerHeaders
                                   THEN CallerHeaders["Content-Type"] ELSE "application/json"
       /\ \A name \in DOMAIN CallerHeaders : sent[name] = CallerHeaders[name]

\* C9 as stated: the fetch call has a body exactly when data is not null, and
\* the body is then the JSON text of data.
C9_BodyExactlyWhenDataNotNull ==
  \A i \in 1..Len(fetchLog) :
    /\ ("body" \in DOMAIN fetchLog[i].options) <=> (call.data # Null)
    /\ call.data # Null => fetchLog[i].options["body"] = Stringify(call.data)

\* C9 as amended: _request sets the body to the JSON text of data exactly when
\* data is truthy; for a falsy data (null, omitted, 0, "", false) it sets no
\* body, so the fetch call has one only if the caller's options has a body
\* property, and then that one.
C9_BodyExactlyWhenDataTruthy ==
  \A i \in 1..Len(fetchLog) :
    IF Truthy(call.data)
      THEN /\ "body" \in DOMAIN fetchLog[i].options
           /\ fetchLog[i].options["body"] = Stringify(call.data)
      ELSE /\ ("body" \in DOMAIN fetchLog[i].options) <=> ("body" \in DOMAIN call.options)
           /\ "body" \in DOMAIN call.options =>
                fetchLog[i].options["body"] = call.options["body"]

C9_Witness ==
  /\ Requesting
  /\ call.data = Num(0)
  /\ Len(fetchLog) = 1
  /\ "body" \notin DOMAIN fetchLog[1].options

\* the data the claim gives for a 2xx body: the parsed JSON, else the text,
\* else null
DataOfBody(resp) ==
  CASE resp.body.kind = "json" -> resp.body.value
    [] resp.body.kind = "text" -> Str(resp.body.text)
    [] OTHER -> Null

\* C10: a 2xx response makes _request resolve with the response's headers and
\* with the parsed JSON of a JSON body, else the text of a readable body, else
\* null.
C10_JsonElseTextElseNull ==
  (Requesting /\ pc = "done" /\ lastResponse # <<>> /\ Ok(lastResponse[1])) =>
    /\ result.kind = "resolved"
    /\ result.value.headers = lastResponse[1].headers
    /\ result.value.data = DataOfBody(lastResponse[1])

\* C11: while a 2xx response is handled, a body stream that one read attempt
\* has consumed is never read a second time, so the JSON attempt and the text
\* attempt are never both applied to a single-use stream.
C11_NoSecondReadOfConsumedBody ==
  (lastResponse # <<>> /\ Ok(lastResponse[1]) /\ lastResponse[1].singleUse) =>
    Len(bodyReads) <= 1

TypedErrorNames ==
  {"GitLabAPIError", "GitLabNotFoundError", "GitLabAuthenticationError",
   "GitLabRateLimitError"}

\* C12: when fetch itself fails, _request and _paginatedRequest reject with
\* that very failure, unmodified, and never with one of the four typed errors.
C12_TransportFailurePassedOn ==
  (pc = "done" /\ thrown # <<>>) =>
    /\ result = Rejected(thrown[1])
    /\ result.error.name \notin TypedErrorNames

C12_Witness ==
  /\ Paginating
  /\ pc = "done"
  /\ Len(pagesLog) = 1
  /\ Len(fetchLog) = 2
  /\ thrown = <<[name |-> "AbortError", message |-> "The user aborted a request."]>>
  /\ result = Rejected(thrown[1])

\* the request of the page asked for last has failed: fetch rejected, or the
\* response had a non-2xx status
PageFailed ==
  \/ thrown # <<>>
  \/ lastResponse # <<>> /\ ~Ok(lastResponse[1])

\* the number of pages whose request has been answered, by a response or a failure
PagesAnswered == Len(pagesLog) + (IF thrown # <<>> THEN 1 ELSE 0)

\* the error with which the _request of the failed page rejected
PageError ==
  IF thrown # <<>> THEN thrown[1]
  ELSE FailureOutcome(fetchLog[Len(fetchLog)].url, lastResponse[1]).error

\* C13: nothing is retried.  A _request call makes exactly one fetch call; a
\* failure on page k of a paginated call rejects the call with that error, k
\* fetch calls have then been made and no more are, and no envelope is returned.
C13_NoRetryNoPartialResult ==
  /\ Requesting => Len(fetchLog) = 1
  /\ (Paginating /\ PageFailed) =>
       /\ pc = "done"
       /\ result = Rejected(PageError)
       /\ Len(fetchLog) = PagesAnswered

C13_Witness ==
  /\ Paginating
  /\ thrown = <<>>
  /\ PageFailed
  /\ lastResponse[1].status = 500
  /\ Len(pagesLog) = 3
  /\ Len(allItems) = 4
  /\ Len(fetchLog) = 3
  /\ result.kind = "rejected"
  /\ result.error.name = "GitLabAPIError"

(***************************************************************************)
(* The query of a URL that was sent, read back from its text.              *)
(***************************************************************************)
\* the position of the first c in s, 0 when s has none
IndexOf(s, c) ==
  IF \E i \in 1..Len(s) : SubSeq(s, i, i) = c
    THEN CHOOSE i \in 1..Len(s) :
           /\ SubSeq(s, i, i) = c
           /\ \A j \in 1..(i - 1) : SubSeq(s, j, j) # c
    ELSE 0

\* s up to its first c, all of s without one
Before(s, c) == IF IndexOf(s, c) = 0 THEN s ELSE SubSeq(s, 1, IndexOf(s, c) - 1)

\* s past its first c, nothing without one
After(s, c) == IF IndexOf(s, c) = 0 THEN "" ELSE SubSeq(s, IndexOf(s, c) + 1, Len(s))

RECURSIVE SplitOn(_, _)
\* the pieces of s between the occurrences of c
SplitOn(s, c) ==
  IF s = "" THEN <<>>
  ELSE IF IndexOf(s, c) = 0 THEN <<s>>
  ELSE <<Before(s, c)>> \o SplitOn(After(s, c), c)

\* the name=value pairs of the URL's query, in order
QueryPairs(url) ==
  LET parts == SplitOn(After(url, "?"), "&")
  IN [i \in 1..Len(parts) |-> <<Before(parts[i], "="), After(parts[i], "=")>>]

\* the values the URL's query gives for a name, in order
ParamValues(url, name) ==
  LET named == SelectSeq(QueryPairs(url), LAMBDA pair : pair[1] = name)
  IN [i \in 1..Len(named) |-> named[i][2]]

\* C14: in a paginated call the requests ask for pages 1, 2, ..., k in that
\* order, one request is outstanding while the call runs and none otherwise,
\* and whenever a request is outstanding every page before it has been
\* appended to the items and its headers have been taken.
C14_PagesInOrderOneAtATime ==
  Paginating =>
    /\ \A i \in 1..Len(fetchLog) : ParamValues(fetchLog[i].url, "page") = <<ToString(i)>>
    /\ Len(fetchLog) - PagesAnswered = (IF pc = "paginate" THEN 1 ELSE 0)
    /\ pc = "paginate" =>
         /\ allItems = ConcatPages(pagesLog)
         /\ totalPages = knownTotal
         /\ totalItems = knownItems
         /\ pagesLog # <<>> => headers = <<lastResponse[1].headers>>

C14_Witness ==
  /\ Paginating
  /\ pc = "paginate"
  /\ Len(fetchLog) = 3
  /\ ParamValues(fetchLog[3].url, "page") = <<"3">>
  /\ Len(pagesLog) = 2
  /\ Len(allItems) = 4
  /\ totalItems = Num(3)

\* the entries of options.query under other names than page and per_page
OtherQueryEntries ==
  SelectSeq(IF "query" \in DOMAIN call.options THEN call.options["query"] ELSE <<>>,
            LAMBDA pair : pair[1] \notin {"page", "per_page"})

\* C15: every request of a paginated call carries page and per_page once each,
\* with the number of the page asked for and the effective page size, whatever
\* options.query holds under those names, and carries every other entry of
\* options.query with its value.
C15_PageParamsOverwriteQuery ==
  Paginating =>
    \A i \in 1..Len(fetchLog) :
      /\ ParamValues(fetchLog[i].url, "page") = <<ToString(i)>>
      /\ ParamValues(fetchLog[i].url, "per_page") = <<ToString(perPage)>>
      /\ \A j \in 1..Len(OtherQueryEntries) :
           ParamValues(fetchLog[i].url, OtherQueryEntries[j][1]) = <<OtherQueryEntries[j][2]>>

C15_Witness ==
  /\ Paginating
  /\ "query" \in DOMAIN call.options
  /\ \E j \in 1..Len(call.options["query"]) : call.options["query"][j] = <<"page", "9">>
  /\ \E j \in 1..Len(call.options["query"]) : call.options["query"][j] = <<"per_page", "50">>
  /\ Len(fetchLog) = 2
  /\ QueryPairs(fetchLog[2].url) =
       << <<"search", "x">>, <<"custom_param", "value">>, <<"page", "2">>,
          <<"per_page", "2">> >>

\* the paginated call uses `size` as its page size: as the loop's perPage, as
\* the per_page parameter of every request, and as the length below which a
\* page ends the call
UsesPageSize(size) ==
  /\ perPage = size
  /\ \A i \in 1..Len(fetchLog) : ParamValues(fetchLog[i].url, "per_page") = <<ToString(size)>>
  /\ \A i \in 1..Len(pagesLog) :
       (IsSequencePage(pagesLog[i]) /\ PageLength(pagesLog[i]) < size) =>
         (i = Len(pagesLog) /\ pc = "done" /\ Len(fetchLog) = i)
  /\ \A i \in 1..(Len(pagesLog) - 1) : PageLength(pagesLog[i]) >= size

\* C16 as stated: the page size is options.per_page whenever that is not null,
\* 0 included, and 100 only when it is null or absent.
C16_PageSizeUnlessNull ==
  Paginating =>
    UsesPageSize(IF "per_page" \in DOMAIN call.options /\ call.options["per_page"] # Null
                   THEN call.options["per_page"].n
                   ELSE DefaultPerPage)

\* C16 as amended: the page size is options.per_page whenever that is truthy,
\* and 100 when it is null, absent or 0.
C16_PageSizeWhenTruthy ==
  Paginating =>
    UsesPageSize(IF "per_page" \in DOMAIN call.options /\ Truthy(call.options["per_page"])
                   THEN call.options["per_page"].n
                   ELSE DefaultPerPage)

C16_Witness ==
  /\ Paginating
  /\ call.options = ("per_page" :> Num(0))
  /\ perPage = DefaultPerPage
  /\ ParamValues(fetchLog[1].url, "per_page") = <<"100">>
  /\ Len(pagesLog) = 1
  /\ IsSequencePage(pagesLog[1])
  /\ PageLength(pagesLog[1]) = 2
  /\ ReturnedEnvelope(1)

\* the constructor's options give nothing for the name: absent, null or empty
Lacks(name) ==
  \/ name \notin DOMAIN constructed
  \/ constructed[name] = Null
  \/ constructed[name] = Str("")

\* construction threw the Error with the message and left nothing behind: no
\* client, no field assigned, no fetch call
FailedWith(message) ==
  /\ pc = "thrown"
  /\ result = Rejected([name |-> "Error", message |-> message])
  /\ config = NoClient
  /\ rateLimitRemaining = Undefined
  /\ rateLimitReset = Undefined
  /\ fetchLog = <<>>

\* C17: construction without a host throws "GitLab host is required.", and
\* with a host but without a token throws "GitLab token is required."; it
\* throws in the constructor itself, before any fetch call, and leaves no client.
C17_ConstructionFailsWithoutHostOrToken ==
  pc # "new" =>
    /\ Lacks("host") => FailedWith("GitLab host is required.")
    /\ (~Lacks("host") /\ Lacks("token")) => FailedWith("GitLab token is required.")
    /\ pc = "thrown" => (Lacks("host") \/ Lacks("token"))

C17_Witness ==
  /\ "host" \notin DOMAIN constructed
  /\ "token" \notin DOMAIN constructed
  /\ FailedWith("GitLab host is required.")

\* the host names a scheme: some text, then "://"
HasScheme(host) == \E i \in 2..(Len(host) - 2) : SubSeq(host, i, i + 2) = "://"

\* the host with https:// in front exactly when it names no scheme
Normalized(host) == IF HasScheme(host) THEN host ELSE "https://" \o host

\* the API version asked for, v4 when none is
VersionAsked ==
  IF "apiVersion" \in DOMAIN constructed /\ constructed["apiVersion"] # Null
    THEN constructed["apiVersion"].s
    ELSE "v4"

\* C18: for every host, the client's baseUrl is the normalized host, "/api/"
\* and the API version (v4 by default), where normalizing puts https:// in
\* front exactly when the host names no scheme, and is idempotent.
C18_BaseUrlFromNormalizedHost ==
  config.ok =>
    /\ config.host = Normalized(constructed["host"].s)
    /\ config.baseUrl = Normalized(constructed["host"].s) \o "/api/" \o VersionAsked
    /\ Normalized(config.host) = config.host

\* the page received last is a sequence shorter than the page size, while the
\* responses have stated a total page count beyond it
ShortPageBeforeTotal ==
  /\ Len(pagesLog) >= 1
  /\ IsSequencePage(pagesLog[Len(pagesLog)])
  /\ PageLength(pagesLog[Len(pagesLog)]) < perPage
  /\ knownTotal.t = "int"
  /\ knownTotal.n > Len(pagesLog)

\* C19: a page p shorter than the page size ends the call even when the
\* stated total page count is larger than p: no further request is made and
\* the envelope has currentPage = p < totalPages.
C19_ShortPageBeatsTotalPages ==
  (Paginating /\ ShortPageBeforeTotal) =>
    /\ Len(fetchLog) = Len(pagesLog)
    /\ ReturnedEnvelope(Len(pagesLog))
    /\ result.value.totalPages.t = "int"
    /\ result.value.currentPage < result.value.totalPages.n

C19_Witness ==
  /\ Paginating
  /\ ShortPageBeforeTotal
  /\ perPage = 2
  /\ Len(pagesLog) = 1
  /\ PageLength(pagesLog[1]) = 1
  /\ HeaderGet(lastResponse[1].headers, "X-Total-Pages") = Str("2")
  /\ ReturnedEnvelope(1)
  /\ result.value.totalPages = Num(2)

\* C20: the envelope's totalPages and totalItems are the numbers parsed from
\* the X-Total-Pages and X-Total headers of the latest page that carried
\* them, null when no page did, a page without the header leaving them as
\* they were; its headers are the header map of the page received last.
C20_TotalsFromLatestHeader ==
  (Paginating /\ pc = "done" /\ result.kind = "resolved" /\ IsEnvelope(result.value)) =>
    /\ result.value.totalPages = knownTotal
    /\ result.value.totalItems = knownItems
    /\ result.value.headers = lastResponse[1].headers

C20_Witness ==
  /\ Paginating
  /\ ReturnedEnvelope(2)
  /\ "X-Total-Pages" \notin DOMAIN lastResponse[1].headers
  /\ "X-Total" \notin DOMAIN lastResponse[1].headers
  /\ prevReceived = <<[remaining |-> Str("39"), reset |-> Str("1678886400")]>>
  /\ result.value.totalPages = Num(2)
  /\ result.value.totalItems = Num(3)
  /\ result.value.headers = <<>>

\* the operations the README's table of APIs describes as paginated
DocumentedPaginated ==
  {"projects.all", "projects.search", "repositories.tree", "repositories.branches.all",
   "mergeRequests.all", "users.all", "groups.all", "groups.projects", "issues.all",
   "issues.notes.all", "pipelines.all", "pipelines.jobs", "commits.commits",
   "projectsVariables.all", "deployments.all", "environments.all", "members.all",
   "groupsMembers.all", "search.projects", "search.groups", "search.users"}

\* the operations whose endpoint returns a collection: the paginated ones and
\* commits.comments, whose payload is a list of comments
CollectionOperations == DocumentedPaginated \cup {"commits.comments"}

\* the last part of an operation's name
Verb(name) == LET parts == SplitOn(name, ".") IN parts[Len(parts)]

\* the resource operation called is forwarded as one core call with the method
\* its verb stands for, and what the core call settles with is the result
ForwardedUnchanged ==
  /\ call.op \in {"request", "paginate"}
  /\ Len(fetchLog) >= 1
  /\ Verb(call.resource) = "show" => fetchLog[1].options["method"] = "GET"
  /\ Verb(call.resource) = "create" => fetchLog[1].options["method"] = "POST"
  /\ Verb(call.resource) = "update" => fetchLog[1].options["method"] = "PUT"
  /\ Verb(call.resource) \in {"delete", "remove"} => fetchLog[1].options["method"] = "DELETE"
  /\ (pc = "done" /\ call.op = "request") =>
       result = IF thrown # <<>> THEN Rejected(thrown[1])
                ELSE ResponseOutcome(fetchLog[1].url, lastResponse[1])

\* C21 as stated: every operation whose endpoint returns a collection goes
\* through _paginatedRequest and every other one through _request, each as one
\* core call with the method of its verb, the core's result being returned.
C21_CollectionsThroughPaginator ==
  "resource" \in DOMAIN call =>
    /\ call.op = (IF call.resource \in CollectionOperations THEN "paginate" ELSE "request")
    /\ ForwardedUnchanged

\* C21 as amended: the operations documented as paginated go through
\* _paginatedRequest and every other one, commits.comments included, goes
\* through _request, each as one core call with the method of its verb, the
\* core's result being returned.
C21_DocumentedPaginatedThroughPaginator ==
  "resource" \in DOMAIN call =>
    /\ call.op = (IF call.resource \in DocumentedPaginated THEN "paginate" ELSE "request")
    /\ ForwardedUnchanged

C21_Witness ==
  /\ "resource" \in DOMAIN call
  /\ call.resource = "commits.comments"
  /\ call.op = "request"
  /\ pc = "done"
  /\ fetchLog[1].url = "https://gitlab.example.com/api/v4/projects/123/repository/commits/a1b2c3d4/comments"
  /\ result.kind = "resolved"

\* the page received last is full-size and the stated total page count,
\* whatever integer it is, is reached at it
FullPageAtAnyTotal ==
  /\ Len(pagesLog) >= 1
  /\ IsSequencePage(pagesLog[Len(pagesLog)])
  /\ PageLength(pagesLog[Len(pagesLog)]) >= perPage
  /\ knownTotal.t = "int"
  /\ Len(pagesLog) >= knownTotal.n

\* C22: after a full-size page, whenever a total page count is known, be it
\* any integer, 0 included, and the page number has reached it, the call
\* stops without requesting another page.
C22_StopsAtAnyKnownTotal ==
  (Paginating /\ FullPageAtAnyTotal) =>
    (pc = "done" /\ Len(fetchLog) = Len(pagesLog))

\* C23: a 2xx page whose payload is not a sequence, at whatever page number,
\* is the last page of the call: the call returns that payload itself, no
\* envelope and none of the items of the pages before, and requests no further
\* page; an envelope is returned only when every page received was a sequence.
C23_NonSequenceLaterPage ==
  Paginating =>
    /\ \A k \in 1..Len(pagesLog) :
         (Ok(pagesLog[k]) /\ ~IsSequencePage(pagesLog[k])) =>
           /\ k = Len(pagesLog)
           /\ Len(fetchLog) = k
           /\ pc = "done"
           /\ result = Resolved(SuccessOutcome(lastResponse[1]).value.data)
           /\ ~IsEnvelope(result.value)
    /\ (pc = "done" /\ result.kind = "resolved" /\ IsEnvelope(result.value)) =>
         \A k \in 1..Len(pagesLog) : IsSequencePage(pagesLog[k])

C23_Witness ==
  /\ Paginating
  /\ Len(pagesLog) = 3
  /\ Ok(pagesLog[3])
  /\ pagesLog[3].body.kind = "json"
  /\ ~IsSequencePage(pagesLog[3])
  /\ Len(allItems) = 4
  /\ pc = "done"
  /\ result = Resolved(pagesLog[3].body.value)

\* how many times the character c occurs in s
CountOf(s, c) == Cardinality({i \in 1..Len(s) : SubSeq(s, i, i) = c})

\* the character that joins the endpoint and the pagination query as claimed
JoinedBy(endpoint) == IF CountOf(endpoint, "?") > 0 THEN "&" ELSE "?"

EnvelopeReturned ==
  /\ Paginating
  /\ pc = "done"
  /\ result.kind = "resolved"
  /\ IsEnvelope(result.value)

\* C25: in every envelope returned, however the loop ended, currentPage is
\* the number of requests the call made and the page number of the last of
\* them, is at least 1, and is one less than the loop counter.
C25_CurrentPageIsLastPageFetched ==
  EnvelopeReturned =>
    /\ result.value.currentPage = Len(fetchLog)
    /\ ParamValues(fetchLog[Len(fetchLog)].url, "page") = <<ToString(result.value.currentPage)>>
    /\ result.value.currentPage >= 1
    /\ result.value.currentPage = currentPage - 1

\* an envelope returned because the stated total page count was reached
C25_Witness ==
  /\ EnvelopeReturned
  /\ result.value.currentPage = 2
  /\ currentPage = 3
  /\ PageLength(pagesLog[2]) = perPage
  /\ result.value.totalPages = Num(2)

\* C26: when every request is answered, and the server sends a page that ends
\* the loop by the time the last page it serves is asked for, a paginated call
\* that is running eventually resolves or rejects.
C26_PaginationSettles ==
  (Paginating /\ pc = "paginate") ~> (Paginating /\ pc = "done")

\* a call settled by the short page that answered its third request
C26_Witness ==
  /\ Paginating
  /\ pc = "done"
  /\ Len(fetchLog) = 3
  /\ Len(pagesLog) = 3
  /\ IsSequencePage(pagesLog[3])
  /\ PageLength(pagesLog[3]) < perPage
  /\ result.kind = "resolved"

\* every page received so far is a full-size sequence, no request has failed,
\* and no positive total page count is reached at the page received last
OnlyFullPagesNoTotalReached ==
  /\ Len(pagesLog) >= 1
  /\ thrown = <<>>
  /\ \A i \in 1..Len(pagesLog) :
       IsSequencePage(pagesLog[i]) /\ PageLength(pagesLog[i]) >= perPage
  /\ ~(knownTotal.t = "int" /\ knownTotal.n > 0 /\ Len(pagesLog) >= knownTotal.n)

AllSettled == Len(procs) >= 1 /\ \A i \in 1..Len(procs) : procs[i].pc = "done"

\* C28: with several _request calls running side by side, in every order of
\* their responses, the two rate-limit fields are both null while no response
\* has come, and otherwise are both the headers of one response, the one
\* processed last, also once every call has settled.
C28_RateLimitFromOneResponse ==
  IF lastResponse = <<>>
    THEN /\ rateLimitRemaining = Null
         /\ rateLimitReset = Null
         /\ \A i \in 1..Len(procs) : procs[i].resp = <<>>
    ELSE /\ \E i \in 1..Len(procs) : procs[i].resp = lastResponse
         /\ rateLimitRemaining = RateHeaders(lastResponse[1]).remaining
         /\ rateLimitReset = RateHeaders(lastResponse[1]).reset

\* the call made first got its response last, and its headers are the ones held
C28_Witness ==
  /\ Len(procs) = 2
  /\ AllSettled
  /\ procs[2].resp # <<>>
  /\ RateHeaders(procs[2].resp[1]) = [remaining |-> Str("39"), reset |-> Str("1678886400")]
  /\ prevReceived = <<RateHeaders(procs[2].resp[1])>>
  /\ lastResponse = procs[1].resp
  /\ rateLimitRemaining = Str("40")
  /\ rateLimitReset = Null

\* a step in which the fetch of the running call rejects
FetchRejects == thrown' # <<>> /\ thrown' # thrown

\* C29: a step in which fetch rejects leaves both rate-limit fields as they
\* were, and the fields change in no step but one that receives a response.
C29_FailureLeavesRateLimit ==
  [][/\ FetchRejects => UNCHANGED <<rateLimitRemaining, rateLimitReset>>
     /\ (rateLimitRemaining' # rateLimitRemaining \/ rateLimitReset' # rateLimitReset) =>
          Responds]_vars

\* a _request call that failed at fetch while the fields held an earlier
\* response's values
C29_Witness ==
  /\ Requesting
  /\ pc = "done"
  /\ thrown # <<>>
  /\ lastResponse = <<>>
  /\ received = <<[remaining |-> Str("40"), reset |-> Str("1678886400")]>>
  /\ rateLimitRemaining = Str("40")
  /\ rateLimitReset = Str("1678886400")

\* the names of the pairs of a query
NamesOf(pairs) == {pairs[j][1] : j \in 1..Len(pairs)}

\* the parameter names a paginated call may send: those written into the
\* endpoint, the keys of options.query, page and per_page
QueryNamesAllowed ==
  NamesOf(QueryPairs(call.endpoint))
    \cup NamesOf(IF "query" \in DOMAIN call.options THEN call.options["query"] ELSE <<>>)
    \cup {"page", "per_page"}

====
